---- MODULE Spec2Model ----
(***************************************************************************)
(* Model of provider.py: the three ModelProvider variants                  *)
(* (GeminiProvider, VertexAIProvider, OpenAIProvider), their constructors, *)
(* env_var_name and generate_content, together with the part of the       *)
(* vendor SDKs the module talks to: the module-level configuration that    *)
(* genai.configure and vertexai.init write, and the outcome (a response or *)
(* a raised exception) of every vendor call.                               *)
(***************************************************************************)
EXTENDS Naturals, Sequences, FiniteSets, TLC

VARIABLES
    VERTEX_AI_AVAILABLE, \* module flag set by the guarded import
    genaiConfig,         \* what genai.configure last stored (module-global in the SDK)
    vertexConfig,        \* what vertexai.init last stored (module-global in the SDK)
    instances,           \* the provider objects constructed so far
    vendorCalls,         \* the vendor calls made by the last operation, in order
    last,                \* the last operation: its arguments and its outcome
    stats,               \* per instance: generate_content calls, requests, failures
    nOps                 \* operations performed so far

vars == <<VERTEX_AI_AVAILABLE, genaiConfig, vertexConfig, instances,
          vendorCalls, last, stats, nOps>>

-----------------------------------------------------------------------------
(* Bounds of the model *)

MaxOps == 3

-----------------------------------------------------------------------------
(* Inputs *)

ApiKeys == {"key-A", "key-B"}
GeminiModels == {"gemini-1.5-pro"}
OpenAIModels == {"gpt-4o", "gpt-4o-mini"}
VertexModels == {"gemini-1.5-flash"}
ProjectIds == {"", "your-gcp-project-id", "proj-a", "proj-b"}
Locations == {"us-central1", "europe-west4"}
Prompts == {"", "line one\nline two"}
ResponseTexts == {"", " padded answer \n"}

(* Messages of the exceptions vertexai.init may raise. *)
ErrorMessages ==
    {"HTTP 403 Forbidden", "Permission denied on resource", "permission denied"}

(* Python values: a str or None. *)
PyStr(s) == [type |-> "str", val |-> s]
PyNone == [type |-> "NoneType", val |-> ""]

(* Exception classes: those deriving from Exception, and those deriving    *)
(* from BaseException only.                                                *)
ExceptionClasses == {"ImportError", "ValueError", "RuntimeError"}
BaseOnlyClasses == {"KeyboardInterrupt"}
IsInstanceOfException(e) == e.cls \in ExceptionClasses

(* An exception object: its class, str(e), its identity (0 for the ones    *)
(* provider.py creates itself) and its __cause__.                          *)
NoError == [cls |-> "None"]
Exc(cls, msg, id, cause) == [cls |-> cls, msg |-> msg, id |-> id, cause |-> cause]

(* The exceptions vertexai.init, the model handle's constructor and a      *)
(* request may raise.                                                      *)
VendorErrors(id) ==
    {Exc("RuntimeError", m, id, NoError) : m \in ErrorMessages}
    \cup {Exc(c, "interrupted (403)", id, NoError) : c \in BaseOnlyClasses}
HandleErrors(id) ==
    {Exc("RuntimeError", m, id, NoError) : m \in {"CONSUMER_INVALID", "model not found"}}
RequestErrors(id) == {Exc("RuntimeError", "429 quota exhausted", id, NoError)}

(* The outcome of one vendor call. *)
Ok == [kind |-> "ok"]
Raised(e) == [kind |-> "raise", error |-> e]

-----------------------------------------------------------------------------
(* Pure helpers *)

(* Python's `needle in hay` on strings. *)
Contains(needle, hay) ==
    \E i \in 1..(Len(hay) + 1 - Len(needle)) :
        SubSeq(hay, i, i + Len(needle) - 1) = needle


(* VertexAIProvider.__init__: the placeholder test on project_id. *)
InvalidProjectId_NoPlaceholder(project_id) == project_id = ""
InvalidProjectId(project_id) ==
    project_id = "" \/ project_id = "your-gcp-project-id"

ImportErrorMessage ==
    "google-cloud-aiplatform is not installed. "
    \o "Install it with: uv add google-cloud-aiplatform"

InvalidProjectMessage(project_id) ==
    "Invalid project_id: '" \o project_id \o "'. "
    \o "Please set vertex_ai_project in config.yaml or GOOGLE_CLOUD_PROJECT environment variable."

(* VertexAIProvider.__init__ up to the try block: what it raises, if       *)
(* anything, before any vendor call.                                       *)
VertexPrecheck_ProjectFirst(project_id) ==
    IF InvalidProjectId(project_id)
    THEN Raised(Exc("ValueError", InvalidProjectMessage(project_id), 0, NoError))
    ELSE IF ~VERTEX_AI_AVAILABLE
    THEN Raised(Exc("ImportError", ImportErrorMessage, 0, NoError))
    ELSE Ok
VertexPrecheck(project_id) ==
    IF ~VERTEX_AI_AVAILABLE
    THEN Raised(Exc("ImportError", ImportErrorMessage, 0, NoError))
    ELSE IF InvalidProjectId(project_id)
    THEN Raised(Exc("ValueError", InvalidProjectMessage(project_id), 0, NoError))
    ELSE Ok

(* The substring test of the except block. *)
IsAccessDenied_NoPermissionDenied(error_msg) ==
    Contains("CONSUMER_INVALID", error_msg) \/ Contains("403", error_msg)
IsAccessDenied(error_msg) ==
    \/ Contains("CONSUMER_INVALID", error_msg)
    \/ Contains("403", error_msg)
    \/ Contains("Permission denied", error_msg)

RemediationMessage(project_id, error_msg) ==
    "Vertex AI API access denied for project '" \o project_id \o "'.\n\n"
    \o "This error typically means:\n"
    \o "1. Vertex AI API is not enabled - Enable it at:\n"
    \o "   https://console.cloud.google.com/apis/library/aiplatform.googleapis.com?project="
    \o project_id \o "\n"
    \o "2. Billing is not enabled - Ensure billing is active for this project\n"
    \o "3. Insufficient permissions - Your account needs 'Vertex AI User' role\n"
    \o "4. Wrong project ID - Verify the project ID matches your GCP project\n\n"
    \o "To enable Vertex AI API, run:\n"
    \o "  gcloud services enable aiplatform.googleapis.com --project=" \o project_id \o "\n\n"
    \o "Original error: " \o error_msg

(* The except block: what leaves __init__ when the try block raised e.     *)
(* `except Exception` does not catch a BaseException-only class.           *)
HandleInitError_WrapAll(project_id, e) ==
    IF IsInstanceOfException(e)
    THEN Exc("ValueError", RemediationMessage(project_id, e.msg), 0, e)
    ELSE e
HandleInitError(project_id, e) ==
    IF IsInstanceOfException(e) /\ IsAccessDenied(e.msg)
    THEN Exc("ValueError", RemediationMessage(project_id, e.msg), 0, e)
    ELSE e

(* The try block: vertexai.init, then the model handle's constructor,      *)
(* which runs only when vertexai.init returned.                            *)
VertexTryCalls(project_id, location, model_name, initRes, modelRes) ==
    <<[fn |-> "vertexai.init",
       args |-> [project |-> project_id, location |-> location],
       result |-> initRes]>>
    \o (IF initRes.kind = "ok"
        THEN <<[fn |-> "VertexGenerativeModel",
                args |-> [model_name |-> model_name],
                result |-> modelRes]>>
        ELSE <<>>)

(* env_var_name of each variant. *)
EnvVarName_VertexCredentials(variant) ==
    CASE variant = "gemini" -> "GEMINI_API_KEY"
      [] variant = "vertex" -> "GOOGLE_APPLICATION_CREDENTIALS"
      [] variant = "openai" -> "OPENAI_API_KEY"
EnvVarName(variant) ==
    CASE variant = "gemini" -> "GEMINI_API_KEY"
      [] variant = "vertex" -> "GOOGLE_CLOUD_PROJECT"
      [] variant = "openai" -> "OPENAI_API_KEY"

(* The arguments each variant passes to its vendor request. *)
GeminiRequestArgs(prompt) == <<prompt>>
VertexRequestArgs(prompt) == <<prompt>>
OpenAIRequestArgs_WithSystem(model_name, prompt) ==
    [model |-> model_name,
     messages |-> <<[role |-> "system", content |-> "You are a helpful assistant."],
                    [role |-> "user", content |-> prompt]>>]
OpenAIRequestArgs(model_name, prompt) ==
    [model |-> model_name,
     messages |-> <<[role |-> "user", content |-> prompt]>>]

(* What generate_content returns from a response object. *)
GeminiText_Stripped(response) ==
    IF response.text.type = "str" /\ Len(response.text.val) > 0
    THEN PyStr(SubSeq(response.text.val, 2, Len(response.text.val)))
    ELSE response.text
GeminiText(response) == response.text
VertexText(response) == response.text
OpenAIText(response) == response.choices[1].message.content

(* The credential a Gemini / Vertex AI model handle sends a request under: *)
(* the one it has bound, or else the SDK's module-level configuration.     *)
GeminiCredential(model) ==
    IF model.bound THEN model.credential ELSE [api_key |-> genaiConfig.api_key]
VertexCredential(model) ==
    IF model.bound THEN model.credential
    ELSE [project |-> vertexConfig.project, location |-> vertexConfig.location]

(* The vendor requests one generate_content call makes; res is the outcome *)
(* of the request.                                                         *)
RequestCalls_Retry(fn, args, credential, res) ==
    LET call == [fn |-> fn, args |-> args, credential |-> credential, result |-> res]
    IN  IF res.kind = "raise" THEN <<call, call>> ELSE <<call>>
RequestCalls(fn, args, credential, res) ==
    <<[fn |-> fn, args |-> args, credential |-> credential, result |-> res]>>

(* The record of an operation that returned / that raised. *)
Returned(op, self, args, value) ==
    [op |-> op, self |-> self, args |-> args, outcome |-> "returned",
     value |-> value, error |-> NoError]
Failed(op, self, args, e) ==
    [op |-> op, self |-> self, args |-> args, outcome |-> "raised",
     value |-> PyNone, error |-> e]

NoStats == [calls |-> 0, requests |-> 0, failures |-> 0]
CountCall(st, calls, res) ==
    [calls |-> st.calls + 1,
     requests |-> st.requests + Len(calls),
     failures |-> st.failures + (IF res.kind = "raise" THEN 1 ELSE 0)]

-----------------------------------------------------------------------------
(* State after import: no provider constructed, the SDKs unconfigured. *)
Init ==
    /\ VERTEX_AI_AVAILABLE \in BOOLEAN
    /\ genaiConfig = [set |-> FALSE, api_key |-> ""]
    /\ vertexConfig = [set |-> FALSE, project |-> "", location |-> ""]
    /\ instances = <<>>
    /\ vendorCalls = <<>>
    /\ last = [op |-> "none", self |-> 0, args |-> [none |-> TRUE], outcome |-> "none",
              value |-> PyNone, error |-> NoError]
    /\ stats = <<>>
    /\ nOps = 0


CanConstruct == nOps < MaxOps

(* GeminiProvider.__init__.  Whether the SDK's model handle binds the      *)
(* configured key when it is created or when it first sends a request is   *)
(* the SDK's choice.                                                       *)
ConstructGemini(api_key, model_name, bindsNow) ==
    /\ CanConstruct
    /\ genaiConfig' = [set |-> TRUE, api_key |-> api_key]
    /\ instances' = Append(instances,
          [variant |-> "gemini", api_key |-> api_key, model_name |-> model_name,
           model |-> [model_name |-> model_name, bound |-> bindsNow,
                      credential |-> [api_key |-> IF bindsNow THEN api_key ELSE ""]]])
    /\ vendorCalls' =
          <<[fn |-> "genai.configure", args |-> [api_key |-> api_key], result |-> Ok],
            [fn |-> "genai.GenerativeModel", args |-> [model_name |-> model_name],
             result |-> Ok]>>
    /\ last' = Returned("GeminiProvider", Len(instances) + 1,
                        [api_key |-> api_key, model_name |-> model_name], PyNone)
    /\ stats' = Append(stats, NoStats)
    /\ nOps' = nOps + 1
    /\ UNCHANGED <<VERTEX_AI_AVAILABLE, vertexConfig>>

(* VertexAIProvider.__init__; initRes and modelRes are the outcomes of     *)
(* vertexai.init and of the model handle's constructor.                    *)
ConstructVertex(project_id, location, model_name, initRes, modelRes, bindsNow) ==
    LET args == [project_id |-> project_id, location |-> location,
                 model_name |-> model_name]
        pre == VertexPrecheck(project_id)
        calls == VertexTryCalls(project_id, location, model_name, initRes, modelRes)
        tryRes == calls[Len(calls)].result
    IN  /\ CanConstruct
        /\ nOps' = nOps + 1
        /\ UNCHANGED <<VERTEX_AI_AVAILABLE, genaiConfig>>
        /\ IF pre.kind = "raise"
           THEN /\ last' = Failed("VertexAIProvider", 0, args, pre.error)
                /\ vendorCalls' = <<>>
                /\ UNCHANGED <<vertexConfig, instances, stats>>
           ELSE /\ vendorCalls' = calls
                /\ vertexConfig' =
                      IF initRes.kind = "ok"
                      THEN [set |-> TRUE, project |-> project_id, location |-> location]
                      ELSE vertexConfig
                /\ IF tryRes.kind = "raise"
                   THEN /\ last' = Failed("VertexAIProvider", 0, args,
                                          HandleInitError(project_id, tryRes.error))
                        /\ UNCHANGED <<instances, stats>>
                   ELSE /\ instances' = Append(instances,
                              [variant |-> "vertex", project_id |-> project_id,
                               location |-> location, model_name |-> model_name,
                               model |-> [model_name |-> model_name, bound |-> bindsNow,
                                          credential |->
                                              IF bindsNow
                                              THEN [project |-> project_id,
                                                    location |-> location]
                                              ELSE [project |-> "", location |-> ""]]])
                        /\ stats' = Append(stats, NoStats)
                        /\ last' = Returned("VertexAIProvider", Len(instances) + 1,
                                            args, PyNone)

(* OpenAIProvider.__init__: the client object holds the key. *)
ConstructOpenAI(api_key, model_name) ==
    /\ CanConstruct
    /\ instances' = Append(instances,
          [variant |-> "openai", api_key |-> api_key, model_name |-> model_name,
           client |-> [api_key |-> api_key]])
    /\ vendorCalls' =
          <<[fn |-> "openai.OpenAI", args |-> [api_key |-> api_key], result |-> Ok]>>
    /\ last' = Returned("OpenAIProvider", Len(instances) + 1,
                        [api_key |-> api_key, model_name |-> model_name], PyNone)
    /\ stats' = Append(stats, NoStats)
    /\ nOps' = nOps + 1
    /\ UNCHANGED <<VERTEX_AI_AVAILABLE, genaiConfig, vertexConfig>>

(* env_var_name on instance i. *)
GetEnvVarName(i) ==
    /\ nOps < MaxOps
    /\ i \in 1..Len(instances)
    /\ last' = Returned("env_var_name", i, [variant |-> instances[i].variant],
                        PyStr(EnvVarName(instances[i].variant)))
    /\ vendorCalls' = <<>>
    /\ nOps' = nOps + 1
    /\ UNCHANGED <<VERTEX_AI_AVAILABLE, genaiConfig, vertexConfig, instances, stats>>

(* GeminiProvider.generate_content on instance i; res is what the vendor   *)
(* request does.                                                           *)
GeminiGenerate(i, prompt, res) ==
    /\ nOps < MaxOps
    /\ i \in 1..Len(instances)
    /\ instances[i].variant = "gemini"
    /\ LET self == instances[i]
           cred == GeminiCredential(self.model)
           calls == RequestCalls("GenerativeModel.generate_content",
                                 GeminiRequestArgs(prompt), cred, res)
       IN  /\ vendorCalls' = calls
           /\ instances' = [instances EXCEPT
                  ![i].model = [@ EXCEPT !.bound = TRUE, !.credential = cred]]
           /\ last' = IF res.kind = "ok"
                      THEN Returned("generate_content", i, [prompt |-> prompt],
                                    GeminiText(res.response))
                      ELSE Failed("generate_content", i, [prompt |-> prompt], res.error)
           /\ stats' = [stats EXCEPT ![i] = CountCall(@, calls, res)]
    /\ nOps' = nOps + 1
    /\ UNCHANGED <<VERTEX_AI_AVAILABLE, genaiConfig, vertexConfig>>

(* VertexAIProvider.generate_content on instance i. *)
VertexGenerate(i, prompt, res) ==
    /\ nOps < MaxOps
    /\ i \in 1..Len(instances)
    /\ instances[i].variant = "vertex"
    /\ LET self == instances[i]
           cred == VertexCredential(self.model)
           calls == RequestCalls("VertexGenerativeModel.generate_content",
                                 VertexRequestArgs(prompt), cred, res)
       IN  /\ vendorCalls' = calls
           /\ instances' = [instances EXCEPT
                  ![i].model = [@ EXCEPT !.bound = TRUE, !.credential = cred]]
           /\ last' = IF res.kind = "ok"
                      THEN Returned("generate_content", i, [prompt |-> prompt],
                                    VertexText(res.response))
                      ELSE Failed("generate_content", i, [prompt |-> prompt], res.error)
           /\ stats' = [stats EXCEPT ![i] = CountCall(@, calls, res)]
    /\ nOps' = nOps + 1
    /\ UNCHANGED <<VERTEX_AI_AVAILABLE, genaiConfig, vertexConfig>>

(* OpenAIProvider.generate_content on instance i. *)
OpenAIGenerate(i, prompt, res) ==
    /\ nOps < MaxOps
    /\ i \in 1..Len(instances)
    /\ instances[i].variant = "openai"
    /\ LET self == instances[i]
           calls == RequestCalls("client.chat.completions.create",
                                 OpenAIRequestArgs(self.model_name, prompt),
                                 self.client, res)
       IN  /\ vendorCalls' = calls
           /\ last' = IF res.kind = "ok"
                      THEN Returned("generate_content", i, [prompt |-> prompt],
                                    OpenAIText(res.response))
                      ELSE Failed("generate_content", i, [prompt |-> prompt], res.error)
           /\ stats' = [stats EXCEPT ![i] = CountCall(@, calls, res)]
    /\ nOps' = nOps + 1
    /\ UNCHANGED <<VERTEX_AI_AVAILABLE, genaiConfig, vertexConfig, instances>>

(* What a vendor call can do. *)
InitFailures == {Raised(e) : e \in VendorErrors(nOps + 1)}
ModelFailures == {Raised(e) : e \in HandleErrors(nOps + 1)}
(* <<outcome of vertexai.init, outcome of the model handle's constructor,  *)
(*   whether the handle binds at construction>>; no vendor call is made,   *)
(* so nothing is chosen, when __init__ raises before the try block.        *)
VertexOutcomes(project_id) ==
    IF VertexPrecheck(project_id).kind = "raise"
    THEN {<<Ok, Ok, FALSE>>}
    ELSE {<<r, Ok, FALSE>> : r \in InitFailures}
         \cup {<<Ok, r, FALSE>> : r \in ModelFailures}
         \cup {<<Ok, Ok, b>> : b \in BOOLEAN}
TextResponses ==
    {[kind |-> "ok", response |-> [text |-> PyStr(t)]] : t \in ResponseTexts}
    \cup {Raised(e) : e \in RequestErrors(nOps + 1)}
ChatResponses ==
    {[kind |-> "ok",
      response |-> [choices |-> <<[message |-> [role |-> "assistant", content |-> c]]>>]] :
        c \in {PyStr(t) : t \in ResponseTexts} \cup {PyNone}}
    \cup {Raised(e) : e \in RequestErrors(nOps + 1)}

Next ==
    \/ \E k \in ApiKeys, m \in GeminiModels, b \in BOOLEAN : ConstructGemini(k, m, b)
    \/ \E p \in ProjectIds, l \in Locations, m \in VertexModels :
          \E o \in VertexOutcomes(p) :
            ConstructVertex(p, l, m, o[1], o[2], o[3])
    \/ \E k \in ApiKeys, m \in OpenAIModels : ConstructOpenAI(k, m)
    \/ \E i \in 1..Len(instances) : GetEnvVarName(i)
    \/ \E i \in 1..Len(instances), p \in Prompts, r \in TextResponses : GeminiGenerate(i, p, r)
    \/ \E i \in 1..Len(instances), p \in Prompts, r \in TextResponses : VertexGenerate(i, p, r)
    \/ \E i \in 1..Len(instances), p \in Prompts, r \in ChatResponses : OpenAIGenerate(i, p, r)


Spec == Init /\ [][Next]_vars

-----------------------------------------------------------------------------
(* Vocabulary of the properties *)

IsVertexInit == last.op = "VertexAIProvider"
IsGenerate == last.op = "generate_content"
LastCall == vendorCalls[Len(vendorCalls)]
(* The try block of VertexAIProvider.__init__ raised. *)
TryRaised ==
    IsVertexInit /\ vendorCalls # <<>> /\ LastCall.result.kind = "raise"
TryError == LastCall.result.error
DenialPatterns == {"403", "CONSUMER_INVALID", "Permission denied"}
HasDenialPattern(msg) == \E pat \in DenialPatterns : Contains(pat, msg)
CalledVendor(fn) == \E k \in 1..Len(vendorCalls) : vendorCalls[k].fn = fn

(* C1: with the SDK available, VertexAIProvider("" or                      *)
(* "your-gcp-project-id", any location, any model) raises ValueError, no   *)
(* instance is made, and neither vertexai.init nor the model handle's      *)
(* constructor has been called.                                            *)
C1_PlaceholderProjectRejectedBeforeVendor ==
    (/\ IsVertexInit
     /\ VERTEX_AI_AVAILABLE
     /\ last.args.project_id \in {"", "your-gcp-project-id"})
    => /\ last.outcome = "raised"
       /\ last.error.cls = "ValueError"
       /\ last.self = 0
       /\ vendorCalls = <<>>

C1_Witness ==
    /\ IsVertexInit
    /\ VERTEX_AI_AVAILABLE
    /\ last.args.project_id = "your-gcp-project-id"
    /\ last.args.location = "europe-west4"
    /\ last.outcome = "raised"
    /\ vertexConfig.set

(* C2: with the SDK unavailable, VertexAIProvider raises ImportError for   *)
(* every argument triple, the empty and the placeholder project id         *)
(* included, and vertexai.init is never called.                            *)
C2_MissingSdkIsImportError ==
    ~VERTEX_AI_AVAILABLE
    => /\ ~vertexConfig.set
       /\ ~CalledVendor("vertexai.init")
       /\ IsVertexInit => /\ last.outcome = "raised"
                          /\ last.error.cls = "ImportError"
                          /\ last.self = 0
                          /\ vendorCalls = <<>>

C2_Witness ==
    /\ ~VERTEX_AI_AVAILABLE
    /\ IsVertexInit
    /\ last.args.project_id = ""
    /\ last.error.cls = "ImportError"

(* C3: when vertexai.init or the model handle's constructor raises an      *)
(* exception e (an instance of Exception) whose message contains "403",    *)
(* "CONSUMER_INVALID" or "Permission denied", __init__ raises a ValueError *)
(* whose cause is e and whose message holds the remediation text, the      *)
(* project id and str(e).                                                  *)
C3_AccessDeniedIsWrapped ==
    (/\ TryRaised
     /\ IsInstanceOfException(TryError)
     /\ HasDenialPattern(TryError.msg))
    => /\ last.outcome = "raised"
       /\ last.self = 0
       /\ last.error.cls = "ValueError"
       /\ last.error.cause = TryError
       /\ Contains("gcloud services enable aiplatform.googleapis.com", last.error.msg)
       /\ Contains("project '" \o last.args.project_id \o "'", last.error.msg)
       /\ Contains("Original error: " \o TryError.msg, last.error.msg)

C3_Witness ==
    /\ TryRaised
    /\ LastCall.fn = "VertexGenerativeModel"
    /\ TryError.msg = "CONSUMER_INVALID"
    /\ last.error.cls = "ValueError"
    /\ last.error.cause = TryError
    /\ last.args.project_id = "proj-b"

(* C4: when vertexai.init or the model handle's constructor raises an      *)
(* exception e whose message contains none of the three patterns, exactly  *)
(* e leaves __init__: same object, same class, same message, no wrapping.  *)
C4_OtherInitErrorPropagates ==
    (TryRaised /\ ~HasDenialPattern(TryError.msg))
    => /\ last.outcome = "raised"
       /\ last.self = 0
       /\ last.error = TryError

C4_Witness ==
    /\ TryRaised
    /\ LastCall.fn = "vertexai.init"
    /\ TryError.msg = "permission denied"
    /\ last.error = TryError
    /\ last.error.cls = "RuntimeError"

(* C5: when the vendor request returns a response, generate_content        *)
(* returns that response's text field as it is: response.text for Gemini   *)
(* and Vertex AI, response.choices[0].message.content for OpenAI.          *)
C5_ReturnsTextFieldUnchanged ==
    (IsGenerate /\ vendorCalls[1].result.kind = "ok")
    => /\ last.outcome = "returned"
       /\ last.value =
            IF instances[last.self].variant = "openai"
            THEN vendorCalls[1].result.response.choices[1].message.content
            ELSE vendorCalls[1].result.response.text

C5_Witness ==
    /\ IsGenerate
    /\ instances[last.self].variant = "gemini"
    /\ vendorCalls[1].result.kind = "ok"
    /\ last.value = PyStr(" padded answer \n")

(* C6: generate_content hands the prompt to the vendor unmodified: Gemini  *)
(* and Vertex AI as the sole argument of model.generate_content, OpenAI as *)
(* the content of the single "user" message, with the model name given at  *)
(* construction.                                                           *)
C6_PromptPassedUnmodified ==
    IsGenerate
    => /\ vendorCalls # <<>>
       /\ IF instances[last.self].variant = "openai"
          THEN /\ vendorCalls[1].fn = "client.chat.completions.create"
               /\ vendorCalls[1].args.messages =
                     <<[role |-> "user", content |-> last.args.prompt]>>
               /\ vendorCalls[1].args.model = instances[last.self].model_name
          ELSE vendorCalls[1].args = <<last.args.prompt>>

C6_Witness ==
    /\ IsGenerate
    /\ instances[last.self].variant = "openai"
    /\ instances[last.self].model_name = "gpt-4o-mini"
    /\ last.args.prompt = ""
    /\ vendorCalls[1].args.messages = <<[role |-> "user", content |-> ""]>>

(* C7: every generate_content call issues exactly one vendor request,      *)
(* whatever happened in earlier calls on the instance; a failed request's  *)
(* error reaches the caller as it is and is not retried.                   *)
C7_OneRequestPerCall ==
    /\ \A i \in 1..Len(instances) : stats[i].requests = stats[i].calls
    /\ IsGenerate
       => /\ Len(vendorCalls) = 1
          /\ vendorCalls[1].result.kind = "raise"
             => /\ last.outcome = "raised"
                /\ last.error = vendorCalls[1].result.error

C7_Witness ==
    /\ IsGenerate
    /\ last.outcome = "raised"
    /\ stats[last.self].calls = 2
    /\ stats[last.self].failures = 2
    /\ stats[last.self].requests = 2

(* C8: a generate_content call that returns, returns a string. *)
C8_ReturnsStringOrFails ==
    (IsGenerate /\ last.outcome = "returned") => last.value.type = "str"

(* The credential, project and location instance i was constructed with. *)
ConstructedWith(i) ==
    IF instances[i].variant = "vertex"
    THEN [project |-> instances[i].project_id, location |-> instances[i].location]
    ELSE [api_key |-> instances[i].api_key]

(* C9: every request of an instance goes out under the credential,         *)
(* project and location the instance was constructed with, whatever other  *)
(* providers were constructed in between.                                  *)
C9_RequestsUnderOwnConfiguration ==
    IsGenerate => vendorCalls[1].credential = ConstructedWith(last.self)

(* C10: env_var_name returns the documented constant of its variant, makes *)
(* no vendor call, and does so whatever the construction arguments and the *)
(* generate_content calls before it.                                       *)
C10_EnvVarNameIsTheDocumentedConstant ==
    last.op = "env_var_name"
    => /\ last.outcome = "returned"
       /\ vendorCalls = <<>>
       /\ instances[last.self].variant = "gemini" => last.value = PyStr("GEMINI_API_KEY")
       /\ instances[last.self].variant = "vertex" => last.value = PyStr("GOOGLE_CLOUD_PROJECT")
       /\ instances[last.self].variant = "openai" => last.value = PyStr("OPENAI_API_KEY")

C10_Witness ==
    /\ last.op = "env_var_name"
    /\ instances[last.self].variant = "vertex"
    /\ stats[last.self].failures = 1
    /\ last.value = PyStr("GOOGLE_CLOUD_PROJECT")
====
